---- MODULE Spec2Model ----
(***************************************************************************)
(* A model of sqrl/crypto.py: the hash chain enhash, the dual-terminated   *)
(* stretching loop enscrypt, the hashed-counter Nonce stream and the       *)
(* KeyGen key hierarchy.                                                   *)
(*                                                                         *)
(* Byte strings are sequences of 0..255.  SHA-256, scrypt and the Mersenne *)
(* twister are library code outside the repository; they are stood in for  *)
(* by small concrete functions (a polynomial hash, an affine mix, a linear *)
(* congruential generator) so that chaining, XOR accumulation, truncation  *)
(* and byte order are computed, not assumed.                               *)
(***************************************************************************)
EXTENDS Integers, Sequences, FiniteSets, TLC

VARIABLES
    \* enhash(data, iterations)
    eh_data, eh_iterations, eh_run,
    \* enscrypt(passwd, salt, logN, iterations, seconds)
    pc, passwd, salt, logN, iterations, seconds,
    out, acc, i, start, end, clock, kdfLog, result,
    \* Nonce
    n_bytes, n_count, n_prefix, n_start, returned,
    t_pc, t_inc, t_c, serialized, mutex,
    \* KeyGen (two instances A and B built from the same seed argument)
    seed, rngA, rngB, outsA, outsB, code

ehVars == <<eh_data, eh_iterations, eh_run>>
esVars == <<pc, passwd, salt, logN, iterations, seconds,
            out, acc, i, start, end, clock, kdfLog, result>>
nVars  == <<n_bytes, n_count, n_prefix, n_start, returned,
            t_pc, t_inc, t_c, serialized, mutex>>
kgVars == <<seed, rngA, rngB, outsA, outsB, code>>
vars   == <<ehVars, esVars, nVars, kgVars>>

----------------------------------------------------------------------------
(* Bounds of the model *)

KEY_BYTES == 2          \* width of keys and digests, in bytes (32 in sqrl)
MaxIterations == 3      \* largest explicit iteration count tried
MaxSeconds == 2         \* largest minimum time, in clock ticks
MaxTick == 1            \* largest clock advance during one step
MaxCalls == 4           \* calls made on one object
NumThreads == 2         \* threads sharing one Nonce

DefaultIterations == 16 \* enhash(data, iterations=16)
DefaultStart == 1       \* Nonce(start=1)
RescueGroups == 6       \* range(6)
RescueRange == 10000    \* r(10000)

----------------------------------------------------------------------------
(* Bytes and integers *)

RECURSIVE FromBytesLittle(_)
\* int.from_bytes(s, 'little')
FromBytesLittle(s) ==
    IF s = <<>> THEN 0 ELSE Head(s) + 256 * FromBytesLittle(Tail(s))

\* n.to_bytes(len, 'little') raises OverflowError unless n fits in len bytes
FitsBytes(n, len) == n >= 0 /\ n < 256^len

\* n.to_bytes(len, 'little') for an n that fits
ToBytesLittle(n, len) == [k \in 1..len |-> (n \div 256^(k - 1)) % 256]

RECURSIVE BitXor(_, _)
\* a ^ b on non-negative integers
BitXor(a, b) ==
    IF a = 0 THEN b
    ELSE IF b = 0 THEN a
    ELSE (((a % 2) + (b % 2)) % 2) + 2 * BitXor(a \div 2, b \div 2)

RECURSIVE BitOr(_, _)
\* a | b on non-negative integers
BitOr(a, b) ==
    IF a = 0 THEN b
    ELSE IF b = 0 THEN a
    ELSE (IF (a % 2) + (b % 2) > 0 THEN 1 ELSE 0) + 2 * BitOr(a \div 2, b \div 2)

Max(a, b) == IF a >= b THEN a ELSE b

RECURSIVE PolyHash(_, _)
PolyHash(m, h) ==
    IF m = <<>> THEN h
    ELSE PolyHash(Tail(m), (h * 31 + Head(m) + 1) % 256^KEY_BYTES)

\* sodium.crypto_hash_sha256(out, m, len(m)): the digest of m
crypto_hash_sha256(m) == ToBytesLittle(PolyHash(m, 27), KEY_BYTES)

\* sha256sum(b, bytes): the first `bytes` bytes of the digest
sha256sum(b, bytes) == SubSeq(crypto_hash_sha256(b), 1, bytes)

----------------------------------------------------------------------------
(* enhash *)

AccumulateOr(a, u) == BitOr(a, FromBytesLittle(u))

\* acc ^= int.from_bytes(u, 'little')
Accumulate(a, u) == BitXor(a, FromBytesLittle(u))

RECURSIVE enhashLoop(_, _, _, _, _)
\* for i in range(1, iterations): u = H(u); acc ^= u
\* `hashed` records the input of every hash invocation, in order
enhashLoop(k, iters, u, a, hashed) ==
    IF k < iters
    THEN LET u2 == crypto_hash_sha256(u)
         IN  enhashLoop(k + 1, iters, u2, Accumulate(a, u2), Append(hashed, u))
    ELSE [status |-> "ok", key |-> ToBytesLittle(a, KEY_BYTES), hashed |-> hashed]

enhashRun(data, iters) ==
    IF Len(data) # KEY_BYTES
    THEN [status |-> "AssertionError", key |-> <<>>, hashed |-> <<>>]
    ELSE LET u == crypto_hash_sha256(data)
         IN  enhashLoop(1, iters, u, FromBytesLittle(u), <<data>>)

enhash(data) == enhashRun(data, DefaultIterations).key

ByteSamples == {0, 1, 255}
KeySamples == [1..KEY_BYTES -> ByteSamples]
EnhashInputs == KeySamples \cup {<<7>>, [k \in 1..KEY_BYTES + 1 |-> 0]}
IterationCounts == 0..MaxIterations \cup {DefaultIterations}

NotRun == [status |-> "none", key |-> <<>>, hashed |-> <<>>]

NoSeed == [given |-> FALSE, v |-> 0]
NoRng == [kind |-> "none", st |-> 0]
NoCode == [status |-> "none", text |-> <<>>]

EnhashIdle ==
    /\ eh_data = <<>> /\ eh_iterations = 0 /\ eh_run = NotRun
NoResult == [status |-> "none", i |-> 0, elapsed |-> 0, key |-> <<>>]

EnscryptIdle ==
    /\ pc = "idle" /\ passwd = <<>> /\ salt = <<>> /\ logN = 0
    /\ iterations = 0 /\ seconds = 0 /\ out = <<>> /\ acc = 0 /\ i = 0
    /\ start = 0 /\ end = 0 /\ clock = 0 /\ kdfLog = <<>> /\ result = NoResult
NonceIdle ==
    /\ n_bytes = 0 /\ n_count = 0 /\ n_prefix = <<>> /\ n_start = 0
    /\ returned = <<>> /\ t_pc = <<>> /\ t_inc = <<>> /\ t_c = <<>>
    /\ serialized = TRUE /\ mutex = 0
KeyGenIdle ==
    /\ seed = NoSeed /\ rngA = NoRng /\ rngB = NoRng
    /\ outsA = <<>> /\ outsB = <<>> /\ code = NoCode

InitEnhash ==
    /\ eh_data \in EnhashInputs
    /\ eh_iterations \in IterationCounts
    /\ eh_run = NotRun
    /\ EnscryptIdle /\ NonceIdle /\ KeyGenIdle

CallEnhash ==
    /\ eh_run.status = "none"
    /\ eh_run' = enhashRun(eh_data, eh_iterations)
    /\ UNCHANGED <<eh_data, eh_iterations, esVars, nVars, kgVars>>

NextEnhash == CallEnhash

SpecEnhash == InitEnhash /\ [][NextEnhash]_vars

RECURSIVE Iterate(_, _)
\* H^k(x)
Iterate(x, k) == IF k = 0 THEN x ELSE crypto_hash_sha256(Iterate(x, k - 1))

RECURSIVE XorOfChain(_, _)
\* H(x) xor H(H(x)) xor ... xor H^n(x), digests read little-endian
XorOfChain(x, n) ==
    IF n = 0 THEN 0
    ELSE BitXor(XorOfChain(x, n - 1), FromBytesLittle(Iterate(x, n)))

EnhashApplied ==
    /\ eh_run.status = "ok" /\ eh_iterations >= 1

\* C6: for a key-width input x and n >= 1, enhash(x, n) is the XOR of the n
\* chained digests H(x) .. H^n(x) read little-endian and re-encoded
\* little-endian; exactly n hashes are made, round k hashing H^(k-1)(x).
C6_EnhashIsXorOfChain ==
    EnhashApplied =>
        /\ eh_run.key = ToBytesLittle(XorOfChain(eh_data, eh_iterations), KEY_BYTES)
        /\ Len(eh_run.hashed) = eh_iterations
        /\ \A k \in 1..eh_iterations :
               eh_run.hashed[k] = Iterate(eh_data, k - 1)

C6_Witness ==
    /\ EnhashApplied
    /\ eh_iterations = DefaultIterations
    /\ eh_data = [k \in 1..KEY_BYTES |-> 0]

----------------------------------------------------------------------------
(* enscrypt *)

\* N = 1 << logN; r = 256; p = 1
ScryptN(ln) == 2^ln
ScryptR == 256
ScryptP == 1

\* _kdf = crypto_pwhash_scryptsalsa208sha256_ll(passwd, salt, N, r, p, out)
\* stood in for by a mix that tells its password from its salt
_kdf(pw, sl, N, r, p) ==
    ToBytesLittle((PolyHash(pw, 5) * 7 + PolyHash(sl, 11) * 13 + N + r + p)
                      % 256^KEY_BYTES, KEY_BYTES)

LoopContinuesAnd(iv, iters, now, e) == iv < iters /\ now < e
LoopContinuesLe(iv, iters, now, e) == iv < iters \/ now <= e
LoopContinuesNe(iv, iters, now, e) == iv < iters \/ now # e

\* while i < iterations or process_time() < end
LoopContinues(iv, iters, now, e) == iv < iters \/ now < e

RoundPasswordOut(pw, o) == o

\* the password argument of the _kdf call in the loop body
RoundPassword(pw, o) == pw

\* the salt argument of the _kdf call in the loop body
RoundSalt(sl, o) == o

PasswdSamples == {<<112>>, <<112, 119>>}
SaltSamples == {<<0, 0>>, <<9, 8, 7>>}
LogNSamples == {9}
ClockSamples == {0, 5}
MaxRounds == MaxIterations + MaxSeconds + 2

InitEnscrypt ==
    /\ pc = "kdf"
    /\ passwd \in PasswdSamples
    /\ salt \in SaltSamples
    /\ logN \in LogNSamples
    /\ iterations \in 0..MaxIterations
    /\ seconds \in 0..MaxSeconds
    /\ clock \in ClockSamples
    /\ out = <<>> /\ acc = 0 /\ i = 0 /\ start = 0 /\ end = 0
    /\ kdfLog = <<>> /\ result = NoResult
    /\ EnhashIdle /\ NonceIdle /\ KeyGenIdle

\* lines 139-147: the first round over (passwd, salt); d ticks of CPU time pass
FirstRound(d) ==
    /\ pc = "kdf"
    /\ LET o == _kdf(passwd, salt, ScryptN(logN), ScryptR, ScryptP)
       IN  /\ out' = o
           /\ acc' = FromBytesLittle(o)
           /\ kdfLog' = Append(kdfLog, [pw |-> passwd, salt |-> salt, out |-> o])
    /\ i' = 1
    /\ clock' = clock + d
    /\ pc' = "start"
    /\ UNCHANGED <<passwd, salt, logN, iterations, seconds, start, end, result>>
    /\ UNCHANGED <<ehVars, nVars, kgVars>>

\* lines 148-149: start = process_time(); end = start + seconds
ReadStart ==
    /\ pc = "start"
    /\ start' = clock
    /\ end' = clock + seconds
    /\ pc' = "check"
    /\ UNCHANGED <<passwd, salt, logN, iterations, seconds, out, acc, i, clock,
                   kdfLog, result>>
    /\ UNCHANGED <<ehVars, nVars, kgVars>>

\* line 150: one evaluation of the loop condition, reading the clock
LoopCheck(d) ==
    /\ pc = "check"
    /\ clock' = clock + d
    /\ pc' = IF LoopContinues(i, iterations, clock', end) THEN "body" ELSE "ret"
    /\ UNCHANGED <<passwd, salt, logN, iterations, seconds, out, acc, i,
                   start, end, kdfLog, result>>
    /\ UNCHANGED <<ehVars, nVars, kgVars>>

\* lines 151-158: one more round; d ticks of CPU time pass
Round(d) ==
    /\ pc = "body"
    /\ i < MaxRounds
    /\ LET pw == RoundPassword(passwd, out)
           sl == RoundSalt(salt, out)
           o  == _kdf(pw, sl, ScryptN(logN), ScryptR, ScryptP)
       IN  /\ out' = o
           /\ acc' = Accumulate(acc, o)
           /\ kdfLog' = Append(kdfLog, [pw |-> pw, salt |-> sl, out |-> o])
    /\ i' = i + 1
    /\ clock' = clock + d
    /\ pc' = "check"
    /\ UNCHANGED <<passwd, salt, logN, iterations, seconds, start, end, result>>
    /\ UNCHANGED <<ehVars, nVars, kgVars>>

\* line 159: return i, process_time() - start, acc.to_bytes(KEY_BYTES, 'little')
Return(d) ==
    /\ pc = "ret"
    /\ clock' = clock + d
    /\ result' = [status |-> "ok", i |-> i, elapsed |-> clock' - start,
                  key |-> ToBytesLittle(acc, KEY_BYTES)]
    /\ pc' = "done"
    /\ UNCHANGED <<passwd, salt, logN, iterations, seconds, out, acc, i,
                   start, end, kdfLog>>
    /\ UNCHANGED <<ehVars, nVars, kgVars>>

\* the CPU clock never runs backwards; a round may take no measurable time
NextEnscrypt ==
    \/ \E d \in 0..MaxTick : FirstRound(d)
    \/ ReadStart
    \/ \E d \in 0..MaxTick : LoopCheck(d)
    \/ \E d \in 0..MaxTick : Round(d)
    \/ \E d \in 0..MaxTick : Return(d)

SpecEnscrypt == InitEnscrypt /\ [][NextEnscrypt]_vars

\* the CPU clock advances by at least one tick over every round
NextEnscryptTicking ==
    \/ \E d \in 1..MaxTick : FirstRound(d)
    \/ ReadStart
    \/ \E d \in 0..MaxTick : LoopCheck(d)
    \/ \E d \in 1..MaxTick : Round(d)
    \/ \E d \in 0..MaxTick : Return(d)

LiveEnscrypt ==
    InitEnscrypt /\ [][NextEnscryptTicking]_vars /\ WF_vars(NextEnscryptTicking)

\* C1: the loop is left only at a check where i >= iterations and the clock
\* has reached start + seconds; a check where either is unmet is followed by
\* another round; the returned count and elapsed time meet both minimums.
C1_ExitOnlyWhenBothHold ==
    /\ [](pc \in {"ret", "done"} => i >= iterations)
    /\ [](pc = "ret" => clock >= end)
    /\ [](pc = "done" => result.i >= iterations /\ result.elapsed >= seconds)
    /\ [][pc = "check" /\ (i < iterations \/ clock' < end) => pc' = "body"]_vars
    /\ [][pc = "body" /\ pc' # "body" => Len(kdfLog') = Len(kdfLog) + 1]_vars

C1_Witness ==
    /\ pc = "done" /\ seconds > 0 /\ iterations > 1
    /\ result.i > iterations /\ result.elapsed > seconds

\* C2: with seconds = 0 the KDF is invoked max(1, iterations) times by the
\* time enscrypt returns, and at no point more often than that.
C2_ExactRoundsWithoutMinimumTime ==
    seconds = 0 =>
        /\ Len(kdfLog) <= Max(1, iterations)
        /\ pc = "done" => /\ Len(kdfLog) = Max(1, iterations)
                          /\ result.i = Max(1, iterations)

C2_Witness ==
    /\ pc = "done" /\ seconds = 0 /\ iterations = MaxIterations
    /\ clock > start

\* C7: enscrypt returns a result when the clock advances over every round.
C7_EnscryptTerminates == <>(pc = "done" /\ result.status = "ok")

C7_Witness ==
    /\ pc = "done" /\ result.status = "ok"
    /\ seconds = MaxSeconds /\ iterations = 0 /\ result.i > 1

RECURSIVE XorOfOutputs(_)
XorOfOutputs(log) ==
    IF log = <<>> THEN 0
    ELSE BitXor(FromBytesLittle(Head(log).out), XorOfOutputs(Tail(log)))

\* C9 as stated: round 1 takes (passphrase, salt); every later round takes the
\* previous digest as both password and salt; the key is the XOR of all outputs.
C9_PreviousDigestIsPasswordAndSalt ==
    /\ Len(kdfLog) >= 1 => kdfLog[1].pw = passwd /\ kdfLog[1].salt = salt
    /\ \A k \in 2..Len(kdfLog) :
           kdfLog[k].pw = kdfLog[k - 1].out /\ kdfLog[k].salt = kdfLog[k - 1].out
    /\ pc = "done" => result.key = ToBytesLittle(XorOfOutputs(kdfLog), KEY_BYTES)

\* C9 amended: round 1 takes (passphrase, salt); every later round takes the
\* passphrase as password and the previous digest as salt; the key is the XOR
\* of all round outputs.
C9_PreviousDigestIsSaltOnly ==
    /\ Len(kdfLog) >= 1 =>
           /\ kdfLog[1].pw = passwd /\ kdfLog[1].salt = salt
           /\ kdfLog[1].out = _kdf(passwd, salt, ScryptN(logN), ScryptR, ScryptP)
    /\ \A k \in 2..Len(kdfLog) :
           /\ kdfLog[k].pw = passwd /\ kdfLog[k].salt = kdfLog[k - 1].out
           /\ kdfLog[k].out =
                  _kdf(passwd, kdfLog[k - 1].out, ScryptN(logN), ScryptR, ScryptP)
    /\ pc = "done" => result.key = ToBytesLittle(XorOfOutputs(kdfLog), KEY_BYTES)

C9_Witness == pc = "done" /\ Len(kdfLog) >= 3

----------------------------------------------------------------------------
(* Nonce *)

CountPlusOneStale(n) == n

\* self._count + 1
CountPlusOne(n) == n + 1

HashedCountNew(old, new) == new

\* c in `self._count, c = self._count + 1, self._count`: the value hashed
HashedCount(old, new) == old

\* sha256sum(self._prefix + c.to_bytes(self._bytes, 'little'), self._bytes)
NonceResult(prefix, c, b) ==
    IF FitsBytes(c, b)
    THEN [status |-> "ok", c |-> c, msg |-> prefix \o ToBytesLittle(c, b),
          nonce |-> sha256sum(prefix \o ToBytesLittle(c, b), b)]
    ELSE [status |-> "OverflowError", c |-> c, msg |-> <<>>, nonce |-> <<>>]

NonceWidths == 1..KEY_BYTES
StartSamples == {0, DefaultStart, 254, 65534}
PrefixSamples == {<<0, 0>>, <<1, 2>>, <<255, 7, 3>>}
Threads == 1..NumThreads

ThreadsIdle ==
    /\ t_pc = [t \in Threads |-> "idle"]
    /\ t_inc = [t \in Threads |-> 0]
    /\ t_c = [t \in Threads |-> 0]

\* lines 86-89: Nonce(bytes, start, prefix)
InitNonce ==
    /\ n_bytes \in NonceWidths
    /\ n_start \in StartSamples
    /\ n_prefix \in PrefixSamples
    /\ n_count = n_start
    /\ returned = <<>>
    /\ ThreadsIdle /\ serialized = TRUE /\ mutex = 0
    /\ EnhashIdle /\ EnscryptIdle /\ KeyGenIdle

\* lines 91-95: one whole __next__ call of a single-threaded caller
NonceNext ==
    /\ Len(returned) < MaxCalls
    /\ n_count' = CountPlusOne(n_count)
    /\ returned' = Append(returned,
           NonceResult(n_prefix, HashedCount(n_count, n_count'), n_bytes))
    /\ UNCHANGED <<n_bytes, n_prefix, n_start, t_pc, t_inc, t_c, serialized, mutex>>
    /\ UNCHANGED <<ehVars, esVars, kgVars>>

NextNonce == NonceNext

SpecNonce == InitNonce /\ [][NextNonce]_vars

OkCalls == {k \in 1..Len(returned) : returned[k].status = "ok"}

\* C3: the counter has grown by one per call, and no two calls hashed the
\* same (prefix, counter) input.
C3_CounterStepsAndInputsDistinct ==
    /\ n_count = n_start + Len(returned)
    /\ \A j, k \in OkCalls :
           j # k => returned[j].msg # returned[k].msg /\ returned[j].c # returned[k].c
    /\ \A k \in 1..Len(returned) :
           returned[k].status = "ok" <=> FitsBytes(returned[k].c, n_bytes)

C3_Witness ==
    /\ Len(returned) = MaxCalls /\ Cardinality(OkCalls) >= 2
    /\ n_start = DefaultStart

\* C10 as stated: the k-th call returns the first b bytes of
\* SHA-256(p ++ little_endian(s + k, b)).
C10_HashesIncrementedCounter ==
    \A k \in 1..Len(returned) :
        FitsBytes(n_start + k, n_bytes) =>
            /\ returned[k].status = "ok"
            /\ returned[k].nonce =
                   sha256sum(n_prefix \o ToBytesLittle(n_start + k, n_bytes), n_bytes)

\* C10 amended: the k-th call hashes the counter as it was before the call:
\* it returns the first b bytes of SHA-256(p ++ little_endian(s + k - 1, b))
\* when s + k - 1 fits in b bytes, and leaves the counter at s + k.
C10_HashesCounterBeforeIncrement ==
    /\ n_count = n_start + Len(returned)
    /\ \A k \in 1..Len(returned) :
        FitsBytes(n_start + k - 1, n_bytes) =>
            /\ returned[k].status = "ok"
            /\ returned[k].nonce =
                   sha256sum(n_prefix \o ToBytesLittle(n_start + k - 1, n_bytes),
                             n_bytes)

C10_Witness ==
    /\ Len(returned) >= 2 /\ returned[2].status = "ok"
    /\ returned[2].c = n_start + 1

ThreadStartSamples == {DefaultStart, 254}

InitNonceThreads ==
    /\ n_bytes \in NonceWidths
    /\ n_start \in ThreadStartSamples
    /\ n_prefix = <<1, 2>>
    /\ n_count = n_start
    /\ returned = <<>>
    /\ ThreadsIdle /\ serialized \in BOOLEAN /\ mutex = 0
    /\ EnhashIdle /\ EnscryptIdle /\ KeyGenIdle

InProgress == {t \in Threads : t_pc[t] # "idle"}

\* line 92, first operand: thread t enters __next__ and evaluates
\* self._count + 1; callers that serialize hold their mutex for the call
LoadInc(t) ==
    /\ t_pc[t] = "idle"
    /\ Len(returned) + Cardinality(InProgress) < MaxCalls
    /\ serialized => mutex = 0
    /\ mutex' = IF serialized THEN t ELSE mutex
    /\ t_inc' = [t_inc EXCEPT ![t] = CountPlusOne(n_count)]
    /\ t_pc' = [t_pc EXCEPT ![t] = "load_c"]
    /\ UNCHANGED <<n_bytes, n_count, n_prefix, n_start, returned, t_c, serialized>>
    /\ UNCHANGED <<ehVars, esVars, kgVars>>

\* line 92, second operand: thread t evaluates self._count
LoadC(t) ==
    /\ t_pc[t] = "load_c"
    /\ t_c' = [t_c EXCEPT ![t] = n_count]
    /\ t_pc' = [t_pc EXCEPT ![t] = "store"]
    /\ UNCHANGED <<n_bytes, n_count, n_prefix, n_start, returned, t_inc,
                   serialized, mutex>>
    /\ UNCHANGED <<ehVars, esVars, kgVars>>

\* line 92, the assignment: self._count and c are stored
Store(t) ==
    /\ t_pc[t] = "store"
    /\ n_count' = t_inc[t]
    /\ t_pc' = [t_pc EXCEPT ![t] = "hash"]
    /\ UNCHANGED <<n_bytes, n_prefix, n_start, returned, t_inc, t_c,
                   serialized, mutex>>
    /\ UNCHANGED <<ehVars, esVars, kgVars>>

\* lines 93-95: thread t hashes c and returns
HashAndReturn(t) ==
    /\ t_pc[t] = "hash"
    /\ returned' = Append(returned, NonceResult(n_prefix, t_c[t], n_bytes))
    /\ t_pc' = [t_pc EXCEPT ![t] = "idle"]
    /\ mutex' = IF serialized THEN 0 ELSE mutex
    /\ UNCHANGED <<n_bytes, n_count, n_prefix, n_start, t_inc, t_c, serialized>>
    /\ UNCHANGED <<ehVars, esVars, kgVars>>

NextNonceThreads ==
    \E t \in Threads : LoadInc(t) \/ LoadC(t) \/ Store(t) \/ HashAndReturn(t)

SpecNonceThreads == InitNonceThreads /\ [][NextNonceThreads]_vars

SameNonceTwice ==
    \E j, k \in OkCalls : j < k /\ returned[j].nonce = returned[k].nonce

CounterUsedTwice ==
    \E j, k \in 1..Len(returned) : j < k /\ returned[j].c = returned[k].c

IncrementLost == InProgress = {} /\ n_count < n_start + Len(returned)

\* C4: two calls return the same nonce, a counter value is used twice or an
\* increment is lost only when the callers do not serialize next(); and
\* unserialized callers can reach such a state.
C4_RepeatsOnlyWhenUnserialized ==
    (SameNonceTwice \/ CounterUsedTwice \/ IncrementLost) => ~serialized

C4_Witness ==
    /\ ~serialized /\ SameNonceTwice /\ CounterUsedTwice /\ IncrementLost

----------------------------------------------------------------------------
(* KeyGen *)

\* `if seed:` -- None and 0 are both false
Truthy(s) == s.given /\ s.v # 0

\* lines 173-176: Random(seed) when the seed is true, SystemRandom() otherwise
NewRng(s) ==
    IF Truthy(s) THEN [kind |-> "Random", st |-> s.v]
    ELSE [kind |-> "SystemRandom", st |-> 0]

\* one step of the seeded generator
Lcg(st) == (75 * st + 74) % 65537

\* the generator after one draw
Advance(rng) ==
    IF rng.kind = "Random" THEN [rng EXCEPT !.st = Lcg(rng.st)] ELSE rng

\* self._rng.getrandbits(k); e is what the operating system supplies
getrandbits(rng, k, e) ==
    IF rng.kind = "Random" THEN Lcg(rng.st) % 2^k ELSE e % 2^k

\* self._rng.randrange(n)
randrange(rng, n, e) ==
    IF rng.kind = "Random" THEN Lcg(rng.st) % n ELSE e % n

\* randbytes(count): getrandbits(count*8).to_bytes(count, 'little')
randbytes(rng, count, e) == ToBytesLittle(getrandbits(rng, count * 8, e), count)

DigitChars == <<"0", "1", "2", "3", "4", "5", "6", "7", "8", "9">>

RECURSIVE str(_)
\* str(n) of a non-negative integer: decimal, no padding
str(n) ==
    IF n < 10 THEN <<DigitChars[n + 1]>>
    ELSE str(n \div 10) \o <<DigitChars[(n % 10) + 1]>>

RECURSIVE join(_, _)
\* sep.join(parts)
join(sep, parts) ==
    IF parts = <<>> THEN <<>>
    ELSE IF Len(parts) = 1 THEN Head(parts)
    ELSE Head(parts) \o <<sep>> \o join(sep, Tail(parts))

RECURSIVE DrawGroups(_, _, _)
\* str(r(10000)) for _ in range(6): the groups and the generator afterwards
DrawGroups(rng, es, k) ==
    IF k > RescueGroups THEN [rng |-> rng, parts |-> <<>>]
    ELSE LET g    == str(randrange(rng, RescueRange, es[k]))
             rest == DrawGroups(Advance(rng), es, k + 1)
         IN  [rng |-> rest.rng, parts |-> <<g>> \o rest.parts]

SeedArgs == {[given |-> FALSE, v |-> 0], [given |-> TRUE, v |-> 0],
             [given |-> TRUE, v |-> 1], [given |-> TRUE, v |-> 2]}
EntropySamples == {0, 258, 65535}
RescueSamples == {7, 1234}

LastIndex(outs, op) ==
    LET S == {k \in 1..Len(outs) : outs[k].op = op}
    IN  IF S = {} THEN 0 ELSE CHOOSE k \in S : \A j \in S : j <= k

\* lines 167-176: two KeyGen instances constructed with the same argument
InitKeyGen ==
    /\ seed \in SeedArgs
    /\ rngA = NewRng(seed)
    /\ rngB = NewRng(seed)
    /\ outsA = <<>> /\ outsB = <<>> /\ code = NoCode
    /\ EnhashIdle /\ EnscryptIdle /\ NonceIdle

\* lines 186-188, called on both instances
identity_unlock_key ==
    /\ Len(outsA) < MaxCalls
    /\ \E eA, eB \in EntropySamples :
        /\ outsA' = Append(outsA, [op |-> "identity_unlock_key", status |-> "ok",
                                   value |-> randbytes(rngA, KEY_BYTES, eA)])
        /\ outsB' = Append(outsB, [op |-> "identity_unlock_key", status |-> "ok",
                                   value |-> randbytes(rngB, KEY_BYTES, eB)])
    /\ rngA' = Advance(rngA)
    /\ rngB' = Advance(rngB)
    /\ UNCHANGED <<seed, code, ehVars, esVars, nVars>>

\* lines 190-192, called on both instances with the key each last generated
identity_master_key ==
    /\ Len(outsA) < MaxCalls
    /\ LastIndex(outsA, "identity_unlock_key") > 0
    /\ LET iukA == outsA[LastIndex(outsA, "identity_unlock_key")].value
           iukB == outsB[LastIndex(outsB, "identity_unlock_key")].value
       IN  /\ outsA' = Append(outsA, [op |-> "identity_master_key",
                                      status |-> "ok", value |-> enhash(iukA)])
           /\ outsB' = Append(outsB, [op |-> "identity_master_key",
                                      status |-> "ok", value |-> enhash(iukB)])
    /\ UNCHANGED <<seed, rngA, rngB, code, ehVars, esVars, nVars>>

\* lines 194-196: crypto_sign_seed_keypair is not a name of the module, so
\* the call raises NameError
identity_lock_key ==
    /\ Len(outsA) < MaxCalls
    /\ LastIndex(outsA, "identity_unlock_key") > 0
    /\ outsA' = Append(outsA, [op |-> "identity_lock_key",
                               status |-> "NameError", value |-> <<>>])
    /\ outsB' = Append(outsB, [op |-> "identity_lock_key",
                               status |-> "NameError", value |-> <<>>])
    /\ UNCHANGED <<seed, rngA, rngB, code, ehVars, esVars, nVars>>

\* lines 202-204, called on both instances with the master key each last derived
local_key ==
    /\ Len(outsA) < MaxCalls
    /\ LastIndex(outsA, "identity_master_key") > 0
    /\ LET mkA == outsA[LastIndex(outsA, "identity_master_key")].value
           mkB == outsB[LastIndex(outsB, "identity_master_key")].value
       IN  /\ outsA' = Append(outsA, [op |-> "local_key",
                                      status |-> "ok", value |-> enhash(mkA)])
           /\ outsB' = Append(outsB, [op |-> "local_key",
                                      status |-> "ok", value |-> enhash(mkB)])
    /\ UNCHANGED <<seed, rngA, rngB, code, ehVars, esVars, nVars>>

NextKeyGen ==
    \/ identity_unlock_key
    \/ identity_master_key
    \/ identity_lock_key
    \/ local_key

SpecKeyGen == InitKeyGen /\ [][NextKeyGen]_vars

\* C5: two KeyGen instances constructed with the same supplied seed return
\* identical results at every position of the same sequence of calls.
C5_SameSeedSameKeys ==
    seed.given => outsA = outsB

\* lines 167-176: one KeyGen instance
InitRescue ==
    /\ seed \in SeedArgs
    /\ rngA = NewRng(seed)
    /\ rngB = NoRng
    /\ outsA = <<>> /\ outsB = <<>> /\ code = NoCode
    /\ EnhashIdle /\ EnscryptIdle /\ NonceIdle

\* lines 181-184: '-'.join(str(r(10000)) for _ in range(6))
rescue_code ==
    /\ Len(outsA) < MaxCalls
    /\ \E es \in [1..RescueGroups -> RescueSamples] :
        LET drawn == DrawGroups(rngA, es, 1)
        IN  /\ code' = [status |-> "ok", text |-> join("-", drawn.parts)]
            /\ rngA' = drawn.rng
    /\ outsA' = Append(outsA, [op |-> "rescue_code", status |-> "ok", value |-> <<>>])
    /\ UNCHANGED <<seed, rngB, outsB, ehVars, esVars, nVars>>

NextRescue == rescue_code

SpecRescue == InitRescue /\ [][NextRescue]_vars

CountOf(text, chars) == Cardinality({k \in 1..Len(text) : text[k] \in chars})

Digits == {DigitChars[k] : k \in 1..10}

\* C8: every rescue code has six groups joined by '-' and 24 decimal digits.
C8_SixGroupsTwentyFourDigits ==
    code.status = "ok" =>
        /\ CountOf(code.text, {"-"}) + 1 = RescueGroups
        /\ CountOf(code.text, Digits) = 24

====
